---- MODULE Spec2Model ----
(***************************************************************************)
(* A model of go-spa's password-reset workflow                             *)
(* (backend/account/reset-token-api.go) and of its endpoint dispatcher     *)
(* (backend/context/context.go).                                           *)
(*                                                                         *)
(* Spec          the reset workflow: request, validate and complete steps  *)
(*               run as concurrent HTTP requests against the user table    *)
(*               and the reset-token table.                                *)
(* DispatchSpec  the dispatcher: requests to a public and a protected      *)
(*               endpoint, served concurrently through the one Context     *)
(*               that Configure creates.                                   *)
(***************************************************************************)
EXTENDS Integers, FiniteSets, Sequences, TLC

\* ------------------------------------------------------------------ bounds
\* Number of HTTP requests of the reset workflow in one behaviour.
NumProcs == 3
\* The clock runs from 0 to MaxTime.
MaxTime == 2
\* Number of HTTP requests through the dispatcher in one behaviour.
NumReqs == 2

\* ------------------------------------------------------- workflow: values
Procs == 1..NumProcs

UserIds == {1, 2}

\* Addresses a request may carry: two registered, one well formed and
\* unregistered, one that emailRegex rejects.
Emails == {"a@x.com", "b@x.com", "nobody@x.com", "not-an-email"}

EmailOf(u) == IF u = 1 THEN "a@x.com" ELSE "b@x.com"

MatchesEmailRegex(e) == e # "not-an-email"

Passwords == {"a", "b"}

\* The stored password of every user before any reset.
InitialPassword == "hash(old)"

\* user.Password.Encode: the stored value is a hash of the password.
Encode(pw) == IF pw = "a" THEN "hash(a)" ELSE "hash(b)"

Keys == {"k1", "k2"}

\* Keys a client may present; one under which no token was created yet is
\* an unknown key.
FormKeys == Keys

ResetTokenActive == "Active"

ResetTokenInactive == "Inactive"

\* Token lifetime, in clock ticks.
TTL == 1

\* The slot of a key under which no token was created.
NoToken == [UserId |-> 0, Key |-> "", State |-> "None", IssuedAt |-> 0]

NoUser == [Id |-> 0, Email |-> "", Password |-> ""]

NoForm == [ok |-> FALSE, email |-> "", key |-> "", userId |-> 0,
           password |-> "", passwordAgain |-> ""]

NoResp == [code |-> 0, msg |-> "", userId |-> 0, key |-> "", password |-> ""]

\* ctx.OK / ctx.BadRequest / ctx.InternalServerError with a message.
OK(m) == [code |-> 200, msg |-> m, userId |-> 0, key |-> "", password |-> ""]

BadRequest(m) == [code |-> 400, msg |-> m, userId |-> 0, key |-> "", password |-> ""]

InternalServerError(m) == [code |-> 500, msg |-> m, userId |-> 0, key |-> "", password |-> ""]

\* ctx.OK(rw, ValidKey{resetToken.UserId, form.Key})
OKValidKey(uid, k) == [code |-> 200, msg |-> "", userId |-> uid, key |-> k, password |-> ""]

\* ctx.OK(rw, user)
OKUser(u) == [code |-> 200, msg |-> "", userId |-> u.Id, key |-> "", password |-> u.Password]

VARIABLES
    now,        \* the clock
    users,      \* the user table: id -> record
    tokens,     \* the reset-token table: key -> record
    kind,       \* per request: "none", "reset", "validate" or "complete"
    pc,         \* per request: where its handler (or goroutine) stands
    form,       \* per request: the decoded request body
    tok,        \* per request: the handler's local resetToken
    usr,        \* per request: the handler's local user
    resp,       \* per request: the response written
    overlap,    \* pairs of complete requests that were in flight together
    sent,       \* keys mailed by sendResetPasswordEmail
    ctxToken,   \* Context.Token of the one shared Context
    ctxT,       \* Context.T of the one shared Context
    dreq,       \* per dispatched request: endpoint, method, credential, language
    dpc,        \* per dispatched request: where newContextHandler stands
    dresp,      \* per dispatched request: the status code written
    dseen,      \* per dispatched request: what its handler read from the Context
    dauth,      \* per dispatched request: whether its credential was checked
    signKey,    \* the package's signKey: "unset", "empty" or "loaded"
    verifyKey,  \* the package's verifyKey: "unset", "empty" or "loaded"
    routes,     \* the endpoints registered on the router
    configureErr \* what Configure returned: "pending", "nil" or "error"

wvars == <<now, users, tokens, kind, pc, form, tok, usr, resp, overlap, sent>>

dvars == <<ctxToken, ctxT, dreq, dpc, dresp, dseen, dauth>>

svars == <<signKey, verifyKey, routes, configureErr>>

vars == <<now, users, tokens, kind, pc, form, tok, usr, resp, overlap, sent,
          ctxToken, ctxT, dreq, dpc, dresp, dseen, dauth,
          signKey, verifyKey, routes, configureErr>>

\* ------------------------------------------------- workflow: collaborators
\* ResetToken.Valid()
Valid(t) == t.State = ResetTokenActive /\ now < t.IssuedAt + TTL

\* ResetTokenService.GetByKey: the record, or NoToken for NotFoundError.
GetByKey(k) == IF k \in Keys THEN tokens[k] ELSE NoToken

\* A Create that stamps the token one lifetime in the past.
CreateBackdated(uid, k) ==
    [UserId |-> uid, Key |-> k, State |-> ResetTokenActive, IssuedAt |-> now - TTL]

\* ResetTokenService.Create: a fresh key, Active, stamped with the clock.
Create(uid, k) == [UserId |-> uid, Key |-> k, State |-> ResetTokenActive, IssuedAt |-> now]

\* A key generator that may repeat a key.
AnyKeys == Keys

FreshKeys == {k \in Keys : tokens[k] = NoToken}

\* An Update that writes whatever the stored state is and stamps the record
\* with the time of the write.
UpdateRestamping(t) == [tokens EXCEPT ![t.Key] = [t EXCEPT !.IssuedAt = now]]


\* ResetTokenService.Update: persists the transition only from Active.
Update(t) == IF tokens[t.Key].State = ResetTokenActive
             THEN [tokens EXCEPT ![t.Key] = t]
             ELSE tokens

\* UserService.GetByEmail: the ids of the users with that address.
GetByEmail(e) == {u \in UserIds : users[u].Email = e}

\* UserService.Update: writes the record.
UserUpdate(u) == [users EXCEPT ![u.Id] = u]

InFlight(p) == kind[p] # "none" /\ pc[p] # "done"

\* Requests arrive in slot order.
Fresh(p) == kind[p] = "none" /\ \A q \in Procs : q < p => kind[q] # "none"

Finish(p, r) == /\ resp' = [resp EXCEPT ![p] = r]
                /\ pc' = [pc EXCEPT ![p] = "done"]

WInit ==
    /\ now = 0
    /\ users = [u \in UserIds |-> [Id |-> u, Email |-> EmailOf(u), Password |-> InitialPassword]]
    /\ tokens = [k \in Keys |-> NoToken]
    /\ kind = [p \in Procs |-> "none"]
    /\ pc = [p \in Procs |-> "idle"]
    /\ form = [p \in Procs |-> NoForm]
    /\ tok = [p \in Procs |-> NoToken]
    /\ usr = [p \in Procs |-> NoUser]
    /\ resp = [p \in Procs |-> NoResp]
    /\ overlap = {}
    /\ sent = {}

\* ------------------------------------------------------ workflow: requests
ResetBodies ==
    {NoForm} \cup {[NoForm EXCEPT !.ok = TRUE, !.email = e] : e \in Emails}

ValidateBodies ==
    {NoForm} \cup {[NoForm EXCEPT !.ok = TRUE, !.key = k] : k \in FormKeys}

\* password and passwordAgain: equal twice over, and one mismatch.
PasswordPairs == {<<"a", "a">>, <<"b", "b">>, <<"a", "b">>}

CompleteBodies ==
    {NoForm} \cup
    {[NoForm EXCEPT !.ok = TRUE, !.key = k, !.userId = u,
                    !.password = pw[1], !.passwordAgain = pw[2]] :
        k \in FormKeys, u \in UserIds, pw \in PasswordPairs}

Begin(p, k, f) ==
    /\ Fresh(p)
    /\ kind' = [kind EXCEPT ![p] = k]
    /\ form' = [form EXCEPT ![p] = f]

\* ResetPasswordResource.POST up to the user lookup: the response that ends
\* the request, or NoResp when the handler goes on to spawn the goroutine.
ResetPasswordCheck(f) ==
    IF ~f.ok THEN BadRequest("Could not query user")
    ELSE IF ~MatchesEmailRegex(f.email) THEN BadRequest("Invalid email address")
    ELSE IF GetByEmail(f.email) = {} THEN BadRequest("User not found")
    ELSE NoResp

\* ResetPasswordResource.POST: the whole handler; on success the goroutine
\* sendResetPasswordEmail is left running and the response is already written.
ResetPasswordPOST(p) ==
    \E f \in ResetBodies :
        LET r == ResetPasswordCheck(f) IN
        /\ Begin(p, "reset", f)
        /\ IF r # NoResp
           THEN /\ Finish(p, r)
                /\ usr' = usr
           ELSE /\ resp' = [resp EXCEPT ![p] = OK("Email sent")]
                /\ pc' = [pc EXCEPT ![p] = "create"]
                /\ usr' = [usr EXCEPT ![p] = users[CHOOSE u \in GetByEmail(f.email) : TRUE]]
        /\ UNCHANGED <<now, users, tokens, tok, overlap, sent, dvars, svars>>

\* A sendResetPasswordEmail that goes on to the mail when Create failed.
sendResetPasswordEmailCreateNoReturn(p) ==
    /\ kind[p] = "reset" /\ pc[p] = "create"
    /\ \/ /\ \E k \in FreshKeys :
                /\ tokens' = [tokens EXCEPT ![k] = Create(usr[p].Id, k)]
                /\ tok' = [tok EXCEPT ![p] = Create(usr[p].Id, k)]
          /\ pc' = [pc EXCEPT ![p] = "mail"]
       \/ /\ pc' = [pc EXCEPT ![p] = "mail"]
          /\ UNCHANGED <<tokens, tok>>
    /\ UNCHANGED <<now, users, kind, form, usr, resp, overlap, sent, dvars, svars>>


\* sendResetPasswordEmail, first half: resetTokenService.Create.
sendResetPasswordEmailCreate(p) ==
    /\ kind[p] = "reset" /\ pc[p] = "create"
    /\ \/ /\ \E k \in FreshKeys :
                /\ tokens' = [tokens EXCEPT ![k] = Create(usr[p].Id, k)]
                /\ tok' = [tok EXCEPT ![p] = Create(usr[p].Id, k)]
          /\ pc' = [pc EXCEPT ![p] = "mail"]
       \/ /\ pc' = [pc EXCEPT ![p] = "done"]
          /\ UNCHANGED <<tokens, tok>>
    /\ UNCHANGED <<now, users, kind, form, usr, resp, overlap, sent, dvars, svars>>

\* sendResetPasswordEmail, second half: the mail with the key is sent or fails.
sendResetPasswordEmailSend(p) ==
    /\ kind[p] = "reset" /\ pc[p] = "mail"
    /\ \E mailOk \in BOOLEAN :
        sent' = IF mailOk THEN sent \cup {tok[p].Key} ELSE sent
    /\ pc' = [pc EXCEPT ![p] = "done"]
    /\ UNCHANGED <<now, users, tokens, kind, form, tok, usr, resp, overlap, dvars, svars>>

\* A validate step that looks the token up and does not ask it Valid().
ValidateKeyResponseFoundOnly(f) ==
    IF ~f.ok THEN BadRequest("Unable to validate key")
    ELSE IF GetByKey(f.key) = NoToken THEN BadRequest("Invalid Key")
    ELSE OKValidKey(GetByKey(f.key).UserId, f.key)


\* ValidateKeyResource.POST: the response for a body, given the store.
ValidateKeyResponse(f) ==
    IF ~f.ok THEN BadRequest("Unable to validate key")
    ELSE IF GetByKey(f.key) = NoToken \/ ~Valid(GetByKey(f.key))
    THEN BadRequest("Invalid Key")
    ELSE OKValidKey(GetByKey(f.key).UserId, f.key)

ValidateKeyPOST(p) ==
    \E f \in ValidateBodies :
        /\ Begin(p, "validate", f)
        /\ Finish(p, ValidateKeyResponse(f))
        /\ UNCHANGED <<now, users, tokens, tok, usr, overlap, sent, dvars, svars>>

\* The key validated before the passwords are compared.
CompleteCheckKeyFirst(f) ==
    IF ~f.ok THEN BadRequest("Unable to change the password")
    ELSE IF GetByKey(f.key) = NoToken \/ ~Valid(GetByKey(f.key))
    THEN BadRequest("Invalid Key")
    ELSE IF f.password # f.passwordAgain THEN BadRequest("Passwords mismatch")
    ELSE NoResp

\* A complete step that takes the earlier validate step's word: it looks the
\* token up and does not ask it Valid() again.
CompleteCheckFoundOnly(f) ==
    IF ~f.ok THEN BadRequest("Unable to change the password")
    ELSE IF f.password # f.passwordAgain THEN BadRequest("Passwords mismatch")
    ELSE IF GetByKey(f.key) = NoToken THEN BadRequest("Invalid Key")
    ELSE NoResp


\* CompleteResource.POST up to "validate the key again": the response that
\* ends the request, or NoResp when the handler goes on with the token.
CompleteCheck(f) ==
    IF ~f.ok THEN BadRequest("Unable to change the password")
    ELSE IF f.password # f.passwordAgain THEN BadRequest("Passwords mismatch")
    ELSE IF GetByKey(f.key) = NoToken \/ ~Valid(GetByKey(f.key))
    THEN BadRequest("Invalid Key")
    ELSE NoResp

\* CompleteResource.POST: decoding, the password confirmation and the token
\* lookup (the handler's steps up to its first read of the store).
CompletePOSTCheck(p) ==
    \E f \in CompleteBodies :
        /\ Begin(p, "complete", f)
        /\ IF CompleteCheck(f) # NoResp
           THEN /\ Finish(p, CompleteCheck(f))
                /\ UNCHANGED <<tok, overlap>>
           ELSE /\ pc' = [pc EXCEPT ![p] = "getbyid"]
                /\ tok' = [tok EXCEPT ![p] = GetByKey(f.key)]
                /\ resp' = resp
                /\ overlap' = overlap \cup
                      {{p, q} : q \in {x \in Procs : kind[x] = "complete" /\ InFlight(x)}}
        /\ UNCHANGED <<now, users, tokens, usr, sent, dvars, svars>>

\* The user taken from the capability object the client sent back.
CompleteUserIdFromForm(p) == form[p].userId


\* The user a complete step changes: the owner recorded in the token it read.
CompleteUserId(p) == tok[p].UserId

\* The token invalidated as soon as the user was resolved, before the
\* password is persisted.
CompletePOSTGetByIdInvalidatingFirst(p) ==
    /\ kind[p] = "complete" /\ pc[p] = "getbyid"
    /\ \E dbOk \in BOOLEAN, encOk \in BOOLEAN :
        IF ~dbOk
        THEN /\ Finish(p, InternalServerError("User not found"))
             /\ UNCHANGED <<usr, tokens>>
        ELSE IF ~encOk
        THEN /\ Finish(p, InternalServerError("Could not change user password"))
             /\ UNCHANGED <<usr, tokens>>
        ELSE /\ usr' = [usr EXCEPT ![p] =
                    [users[CompleteUserId(p)] EXCEPT !.Password = Encode(form[p].password)]]
             /\ tokens' = Update([tok[p] EXCEPT !.State = ResetTokenInactive])
             /\ pc' = [pc EXCEPT ![p] = "update"]
             /\ resp' = resp
    /\ UNCHANGED <<now, users, kind, form, tok, overlap, sent, dvars, svars>>

\* CompleteResource.POST, userService.GetById and user.Password.Encode.
CompletePOSTGetById(p) ==
    /\ kind[p] = "complete" /\ pc[p] = "getbyid"
    /\ \E dbOk \in BOOLEAN, encOk \in BOOLEAN :
        IF ~dbOk
        THEN /\ Finish(p, InternalServerError("User not found"))
             /\ usr' = usr
        ELSE IF ~encOk
        THEN /\ Finish(p, InternalServerError("Could not change user password"))
             /\ usr' = usr
        ELSE /\ usr' = [usr EXCEPT ![p] =
                    [users[CompleteUserId(p)] EXCEPT !.Password = Encode(form[p].password)]]
             /\ pc' = [pc EXCEPT ![p] = "update"]
             /\ resp' = resp
    /\ UNCHANGED <<now, users, tokens, kind, form, tok, overlap, sent, dvars, svars>>

\* A complete step that consumes the token when the user update fails.
CompletePOSTUserUpdateConsuming(p) ==
    /\ kind[p] = "complete" /\ pc[p] = "update"
    /\ \E dbOk \in BOOLEAN :
        IF ~dbOk
        THEN /\ Finish(p, InternalServerError("Could not change user password"))
             /\ users' = users
             /\ tokens' = Update([tok[p] EXCEPT !.State = ResetTokenInactive])
        ELSE /\ users' = UserUpdate(usr[p])
             /\ pc' = [pc EXCEPT ![p] = "invalidate"]
             /\ resp' = resp
             /\ tokens' = tokens
    /\ UNCHANGED <<now, kind, form, tok, usr, overlap, sent, dvars, svars>>


\* CompleteResource.POST, userService.Update(user).
CompletePOSTUserUpdate(p) ==
    /\ kind[p] = "complete" /\ pc[p] = "update"
    /\ \E dbOk \in BOOLEAN :
        IF ~dbOk
        THEN /\ Finish(p, InternalServerError("Could not change user password"))
             /\ users' = users
        ELSE /\ users' = UserUpdate(usr[p])
             /\ pc' = [pc EXCEPT ![p] = "invalidate"]
             /\ resp' = resp
    /\ UNCHANGED <<now, tokens, kind, form, tok, usr, overlap, sent, dvars, svars>>

\* resetToken.State = ResetTokenInactive
Invalidated(t) == [t EXCEPT !.State = ResetTokenInactive]

\* A complete step that answers with an error when the token's Update fails.
CompletePOSTInvalidateOrFail(p) ==
    /\ kind[p] = "complete" /\ pc[p] = "invalidate"
    /\ \E dbOk \in BOOLEAN :
        /\ tok' = [tok EXCEPT ![p] = Invalidated(tok[p])]
        /\ tokens' = IF dbOk THEN Update(Invalidated(tok[p])) ELSE tokens
        /\ Finish(p, IF dbOk THEN OKUser(usr[p])
                     ELSE InternalServerError("Could not change user password"))
    /\ UNCHANGED <<now, users, kind, form, usr, overlap, sent, dvars, svars>>


\* CompleteResource.POST, "invalidate token": a failed Update is only logged.
CompletePOSTInvalidate(p) ==
    /\ kind[p] = "complete" /\ pc[p] = "invalidate"
    /\ \E dbOk \in BOOLEAN :
        /\ tok' = [tok EXCEPT ![p] = Invalidated(tok[p])]
        /\ tokens' = IF dbOk THEN Update(Invalidated(tok[p])) ELSE tokens
    /\ Finish(p, OKUser(usr[p]))
    /\ UNCHANGED <<now, users, kind, form, usr, overlap, sent, dvars, svars>>

\* Time passes.
Tick ==
    /\ now < MaxTime
    /\ now' = now + 1
    /\ UNCHANGED <<users, tokens, kind, pc, form, tok, usr, resp, overlap, sent, dvars, svars>>

\* ------------------------------------------------------------ dispatcher
Reqs == 1..NumReqs

Methods == {"GET", "DELETE", "OPTIONS"}

\* What a request may carry as its bearer credential: nothing, a token whose
\* signature does not verify, or a token that verifies.
Credentials == {"none", "forged", "alice"}

\* Accept-Language: absent, or a language.
Langs == {"", "pt-BR"}

\* The endpoints registered with AddEndpoint before serving; Handlers is the
\* key set of the endpoint's MethodHandlers map.
PublicEndpoint == [Public |-> TRUE, Path |-> "/public", Handlers |-> {"GET"}]

ProtectedEndpoint == [Public |-> FALSE, Path |-> "/protected", Handlers |-> {"GET", "OPTIONS"}]

endpoints == {PublicEndpoint, ProtectedEndpoint}

\* A nil *jwt.Token.
NilToken == [Nil |-> TRUE, Sub |-> "", Valid |-> FALSE]

\* jwt.ParseFromRequest with the verification key: nil without a credential,
\* an invalid token when verification fails, the verified token otherwise.
ParseFromRequest(cred) ==
    CASE cred = "none" -> NilToken
      [] cred = "forged" -> [Nil |-> FALSE, Sub |-> "alice", Valid |-> FALSE]
      [] OTHER -> [Nil |-> FALSE, Sub |-> cred, Valid |-> TRUE]

\* MethodHandlers.IsAllowed
IsAllowed(handlers, method) == \E m \in handlers : method = m

\* The JWT middleware in front of a protected endpoint (HandlerWithNext):
\* whether it calls the next handler. An OPTIONS request is let through
\* unchecked; any other needs a credential that verifies.
CheckJWT(method, cred) ==
    method = "OPTIONS" \/ ParseFromRequest(cred).Valid

\* Whether the middleware looks at the request's credential.
ChecksCredential(ep, method) == ~ep.Public /\ method # "OPTIONS"

\* A protected endpoint registered without the middleware.
AdmitUnwrapped(ep, method, cred) ==
    IF ~IsAllowed(ep.Handlers, method) THEN 405 ELSE 0

\* The status a request is answered with before its handler is reached, or 0:
\* the router's chain for the endpoint as AddEndpoint builds it, then the
\* method check that opens newContextHandler.
Admit(ep, method, cred) ==
    IF ~ep.Public /\ ~CheckJWT(method, cred) THEN 401
    ELSE IF ~IsAllowed(ep.Handlers, method) THEN 405
    ELSE 0

\* i18n.MustTfunc(acceptLang, defaultLang): the language T translates to.
Tfunc(acceptLang) == IF acceptLang = "" THEN "en-US" ELSE acceptLang

NoReq == [Public |-> TRUE, Path |-> "", Handlers |-> {}, method |-> "", cred |-> "", lang |-> ""]

NoSeen == [invoked |-> FALSE, Token |-> NilToken, T |-> ""]

DInit ==
    /\ ctxToken = NilToken
    /\ ctxT = ""
    /\ dreq = [d \in Reqs |-> NoReq]
    /\ dpc = [d \in Reqs |-> "idle"]
    /\ dresp = [d \in Reqs |-> 0]
    /\ dseen = [d \in Reqs |-> NoSeen]
    /\ dauth = [d \in Reqs |-> FALSE]

\* LoadSecureKeys: signKey is read first; verifyKey is read only when that
\* succeeded. A failed read leaves the key empty.
LoadSecureKeysSignKey(privOk) == IF privOk THEN "loaded" ELSE "empty"

LoadSecureKeysVerifyKey(privOk, pubOk) ==
    IF ~privOk THEN "unset" ELSE IF pubOk THEN "loaded" ELSE "empty"

\* Configure: LoadSecureKeys is called and the error it returns is dropped,
\* the Context is built (New returns no error), the endpoints are registered,
\* and nil is returned.
Configure ==
    /\ configureErr = "pending"
    /\ \E privOk \in BOOLEAN, pubOk \in BOOLEAN :
        /\ signKey' = LoadSecureKeysSignKey(privOk)
        /\ verifyKey' = LoadSecureKeysVerifyKey(privOk, pubOk)
    /\ routes' = endpoints
    /\ configureErr' = "nil"
    /\ UNCHANGED <<wvars, dvars>>

\* A request arrives and runs up to the handler's first use of the Context.
Arrive(d) ==
    /\ dpc[d] = "idle"
    /\ \A e \in Reqs : e < d => dpc[e] # "idle"
    /\ \E ep \in routes, method \in Methods, cred \in Credentials, lang \in Langs :
        /\ dreq' = [dreq EXCEPT ![d] =
              [Public |-> ep.Public, Path |-> ep.Path, Handlers |-> ep.Handlers,
               method |-> method, cred |-> cred, lang |-> lang]]
        /\ dauth' = [dauth EXCEPT ![d] = ChecksCredential(ep, method)]
        /\ dresp' = [dresp EXCEPT ![d] = Admit(ep, method, cred)]
        /\ dpc' = [dpc EXCEPT ![d] =
              IF Admit(ep, method, cred) # 0 THEN "done"
              ELSE IF ep.Public THEN "updateT" ELSE "parse"]
    /\ UNCHANGED <<ctxToken, ctxT, dseen, wvars, svars>>

\* newContextHandler: context.Token, _ = jwt.ParseFromRequest(...)
ParseToken(d) ==
    /\ dpc[d] = "parse"
    /\ ctxToken' = ParseFromRequest(dreq[d].cred)
    /\ dpc' = [dpc EXCEPT ![d] = "updateT"]
    /\ UNCHANGED <<ctxT, dreq, dresp, dseen, dauth, wvars, svars>>

\* newContextHandler: context.updateT(req)
updateT(d) ==
    /\ dpc[d] = "updateT"
    /\ ctxT' = Tfunc(dreq[d].lang)
    /\ dpc' = [dpc EXCEPT ![d] = "invoke"]
    /\ UNCHANGED <<ctxToken, dreq, dresp, dseen, dauth, wvars, svars>>

\* newContextHandler: endpoint.Handlers[req.Method](context, rw, req); the
\* handler reads the Context it is handed, and its error becomes a 400.
Invoke(d) ==
    /\ dpc[d] = "invoke"
    /\ dseen' = [dseen EXCEPT ![d] = [invoked |-> TRUE, Token |-> ctxToken, T |-> ctxT]]
    /\ \E err \in BOOLEAN : dresp' = [dresp EXCEPT ![d] = IF err THEN 400 ELSE 200]
    /\ dpc' = [dpc EXCEPT ![d] = "done"]
    /\ UNCHANGED <<ctxToken, ctxT, dreq, dauth, wvars, svars>>

\* The process before Configure has run.
NotStarted ==
    /\ signKey = "unset"
    /\ verifyKey = "unset"
    /\ routes = {}
    /\ configureErr = "pending"

\* The process serving, after a Configure that loaded both keys.
Started ==
    /\ signKey = "loaded"
    /\ verifyKey = "loaded"
    /\ routes = endpoints
    /\ configureErr = "nil"

Init == WInit /\ DInit /\ Started

Next ==
    \/ \E p \in Procs : ResetPasswordPOST(p)
    \/ \E p \in Procs : sendResetPasswordEmailCreate(p)
    \/ \E p \in Procs : sendResetPasswordEmailSend(p)
    \/ \E p \in Procs : ValidateKeyPOST(p)
    \/ \E p \in Procs : CompletePOSTCheck(p)
    \/ \E p \in Procs : CompletePOSTGetById(p)
    \/ \E p \in Procs : CompletePOSTUserUpdate(p)
    \/ \E p \in Procs : CompletePOSTInvalidate(p)
    \/ Tick

Spec == Init /\ [][Next]_vars

DNext ==
    \/ \E d \in Reqs : Arrive(d)
    \/ \E d \in Reqs : ParseToken(d)
    \/ \E d \in Reqs : updateT(d)
    \/ \E d \in Reqs : Invoke(d)

DispatchSpec == Init /\ [][DNext]_vars

StartupInit == WInit /\ DInit /\ NotStarted

StartupNext ==
    \/ Configure
    \/ \E d \in Reqs : Arrive(d)
    \/ \E d \in Reqs : ParseToken(d)
    \/ \E d \in Reqs : updateT(d)
    \/ \E d \in Reqs : Invoke(d)

StartupSpec == StartupInit /\ [][StartupNext]_vars

\* ----------------------------------------------------------------- claims
\* A complete step that has persisted a password change (userService.Update
\* returned nil): it stands before the token's invalidation or has answered 200.
Changed(p) ==
    /\ kind[p] = "complete"
    /\ \/ pc[p] = "invalidate"
       \/ pc[p] = "done" /\ resp[p].code = 200

Succeeded(p) == kind[p] = "complete" /\ pc[p] = "done" /\ resp[p].code = 200

InvalidKey == BadRequest("Invalid Key")

\* C1: of the complete steps that ran concurrently with matching passwords and
\* the same key of a valid token, exactly one changes the password and reports
\* success; each other one fails with "Invalid Key" and changes nothing.
\* Stated of the runs in which no collaborator fails: the token's invalidation
\* was persisted and the other step met no internal error.
C1_ExactlyOneConcurrentCompletion ==
    \A p, q \in Procs :
        (/\ p # q
         /\ {p, q} \in overlap
         /\ form[p].key = form[q].key
         /\ Succeeded(p)
         /\ tokens[form[p].key].State = ResetTokenInactive
         /\ pc[q] = "done"
         /\ resp[q].code # 500)
        => resp[q] = InvalidKey /\ ~Changed(q)

\* C2: the complete steps that presented one key perform at most one password
\* change between them.
C2_AtMostOneChangePerKey ==
    \A k \in Keys :
        Cardinality({p \in Procs : Changed(p) /\ form[p].key = k}) <= 1

\* C3: a token whose persisted state is Inactive stays Inactive.
C3_InactiveIsAbsorbing ==
    [][\A k \in Keys :
          tokens[k].State = ResetTokenInactive => tokens'[k].State = ResetTokenInactive]_vars

\* C3 witness: a token is Inactive after two complete steps with its key went
\* through the invalidation, the second on the already Inactive record.
C3_Witness ==
    \E k \in Keys, p \in Procs, q \in Procs :
        /\ p # q
        /\ tokens[k].State = ResetTokenInactive
        /\ Succeeded(p) /\ form[p].key = k
        /\ Succeeded(q) /\ form[q].key = k

\* C4: once a complete step has answered 200 for a key, a validate-key step
\* with that key answers "Invalid Key".
C4_ValidateFailsAfterComplete ==
    [][\A p, q \in Procs :
          (/\ Succeeded(p)
           /\ kind[q] = "none" /\ kind'[q] = "validate"
           /\ form'[q].ok /\ form'[q].key = form[p].key)
          => resp'[q] = InvalidKey]_vars

\* C5: a request step with a well-formed address of no user answers as it does
\* for a user's address, "Email sent", and issues no token.
C5_UnknownEmailSameResponse ==
    \A p \in Procs :
        (/\ kind[p] = "reset"
         /\ form[p].ok
         /\ MatchesEmailRegex(form[p].email)
         /\ GetByEmail(form[p].email) = {})
        => resp[p] = OK("Email sent") /\ pc[p] = "done" /\ tok[p] = NoToken

\* C6: a request whose method the endpoint does not handle is answered 405,
\* and its credential is not checked first.
C6_MethodCheckedBeforeCredential ==
    \A d \in Reqs :
        (dpc[d] # "idle" /\ ~IsAllowed(dreq[d].Handlers, dreq[d].method))
        => dresp[d] = 405 /\ ~dauth[d]

Unauthenticated(d) ==
    /\ dpc[d] # "idle"
    /\ ~dreq[d].Public
    /\ IsAllowed(dreq[d].Handlers, dreq[d].method)
    /\ dreq[d].cred \in {"none", "forged"}

C8_PublicHandlerSeesNoIdentity ==
    \A d \in Reqs :
        (dseen[d].invoked /\ dreq[d].Public) => dseen[d].Token = NilToken

\* C9: a handler reads from its context the locale function of its own
\* request and, on a protected endpoint, the identity of its own request.
C9_ContextOwnedByRequest ==
    \A d \in Reqs :
        dseen[d].invoked =>
            /\ dseen[d].T = Tfunc(dreq[d].lang)
            /\ ~dreq[d].Public => dseen[d].Token = ParseFromRequest(dreq[d].cred)

Mismatched(f) == f.ok /\ f.password # f.passwordAgain

\* C10: a complete step whose passwords differ answers "Passwords mismatch"
\* without reading the token, whatever its key, and changes no token and no user.
C10_MismatchChangesNothing ==
    [][\A p \in Procs :
          (kind[p] = "none" /\ kind'[p] = "complete" /\ Mismatched(form'[p]))
          => /\ resp'[p] = BadRequest("Passwords mismatch")
             /\ pc'[p] = "done"
             /\ tok'[p] = NoToken
             /\ tokens' = tokens
             /\ users' = users]_vars

\* C10 witness: a mismatched complete step was answered while the token of its
\* key was valid, and the token is still Active.
C10_Witness ==
    \E p \in Procs :
        /\ kind[p] = "complete" /\ pc[p] = "done"
        /\ Mismatched(form[p])
        /\ resp[p] = BadRequest("Passwords mismatch")
        /\ Valid(tokens[form[p].key])

\* C11: the password is persisted before the token is invalidated. In every
\* reachable state, the states between the steps of a complete request (where
\* a crash would leave the store) included, a token that is Inactive has an
\* owner whose stored password is no longer the initial one, and a complete
\* step with that key has passed userService.Update; and the step that writes
\* Inactive is taken by a request that stands after its userService.Update.
C11_PasswordPersistedBeforeInactive ==
    /\ \A k \in Keys : tokens[k].State = ResetTokenInactive =>
          /\ users[tokens[k].UserId].Password # InitialPassword
          /\ \E p \in Procs : Changed(p) /\ form[p].key = k
    /\ \A p \in Procs : kind[p] = "complete" /\ pc[p] \in {"getbyid", "update"}
          /\ (\A q \in Procs \ {p} : form[q].key = form[p].key => ~Changed(q))
          => tokens[form[p].key].State = ResetTokenActive

\* A complete step has made its token Inactive, and the password it set is
\* the stored one.
C11_Witness ==
    \E p \in Procs : /\ Succeeded(p)
                      /\ tok[p].State = ResetTokenInactive
                      /\ tokens[form[p].key].State = ResetTokenInactive
                      /\ users[tok[p].UserId].Password = Encode(form[p].password)

\* C12: a failed key load is fatal to startup. Once Configure has returned
\* with the signing key or the verification key not loaded, it has returned
\* an error, no endpoint is registered, and no request is served.
C12_KeyLoadFailureStopsStartup ==
    configureErr # "pending" /\ (signKey # "loaded" \/ verifyKey # "loaded") =>
        /\ configureErr = "error"
        /\ routes = {}
        /\ \A d \in Reqs : dpc[d] = "idle"

\* C13: the lifetime of a token's validity. A token is Valid right after its
\* Create; Valid is exactly "Active and now < issued-at + TTL"; and a token
\* that is not Valid (expired or consumed) is not Valid after any step.
C13_ValidOnlyFalls ==
    [][\A k \in Keys :
          /\ tokens[k] = NoToken /\ tokens'[k] # NoToken => Valid(tokens[k])'
          /\ tokens[k] # NoToken =>
                (Valid(tokens[k]) <=> /\ tokens[k].State = ResetTokenActive
                                      /\ now < tokens[k].IssuedAt + TTL)
          /\ tokens[k] # NoToken /\ ~Valid(tokens[k]) => ~Valid(tokens[k])']_vars

\* One token was consumed and another has expired while Active.
C13_Witness ==
    \E k1, k2 \in Keys :
        /\ tokens[k1].State = ResetTokenInactive
        /\ tokens[k2].State = ResetTokenActive
        /\ now >= tokens[k2].IssuedAt + TTL
        /\ ~Valid(tokens[k1]) /\ ~Valid(tokens[k2])

\* C14: the validate step. For a decodable body it answers "Invalid Key"
\* exactly when no token has the key or the token is not Valid, and otherwise
\* the token's owner with the key; either way no token and no user changes.
C14_ValidateAnswersAndChangesNothing ==
    [][\A q \in Procs : kind[q] = "none" /\ kind'[q] = "validate" =>
          /\ tokens' = tokens
          /\ users' = users
          /\ form'[q].ok =>
                LET t == GetByKey(form'[q].key) IN
                /\ resp'[q] = InvalidKey <=> (t = NoToken \/ ~Valid(t))
                /\ resp'[q] # InvalidKey => resp'[q] = OKValidKey(t.UserId, form'[q].key)]_vars

\* Validate steps have answered both ways for keys the store knows: one
\* with the owner of the token, one with "Invalid Key".
C14_Witness ==
    \E p, q \in Procs :
        /\ kind[p] = "validate" /\ form[p].ok
        /\ resp[p] = OKValidKey(GetByKey(form[p].key).UserId, form[p].key)
        /\ kind[q] = "validate" /\ form[q].ok
        /\ resp[q] = InvalidKey
        /\ GetByKey(form[q].key) # NoToken

\* A validate step answered that key k is valid.
Validated(k) ==
    \E q \in Procs : /\ kind[q] = "validate" /\ form[q].ok /\ form[q].key = k
                     /\ resp[q].code = 200

\* C15: the complete step validates the token itself. A complete step with
\* matching passwords whose token is expired or consumed when the step looks
\* it up ends there with "Invalid Key" and changes no password, whether or
\* not the key passed a validate step before.
C15_CompleteRevalidates ==
    [][\A p \in Procs :
          /\ kind[p] = "none" /\ kind'[p] = "complete"
          /\ form'[p].ok /\ ~Mismatched(form'[p])
          /\ ~Valid(GetByKey(form'[p].key))
          => /\ resp'[p] = InvalidKey
             /\ pc'[p] = "done"
             /\ users' = users]_vars

\* A key passed a validate step, its token then expired, and a complete step
\* with that key and matching passwords was refused.
C15_Witness ==
    \E p \in Procs :
        /\ kind[p] = "complete" /\ form[p].ok /\ ~Mismatched(form[p])
        /\ Validated(form[p].key)
        /\ \E q \in Procs : q < p /\ kind[q] = "validate" /\ form[q].key = form[p].key
                            /\ resp[q].code = 200
        /\ resp[p] = InvalidKey
        /\ \A u \in UserIds : users[u].Password = InitialPassword

\* C16: a failed invalidation does not fail the step. The last step of a
\* complete request, taken after the password was persisted, answers success
\* with the updated user and leaves the user table as it is, also when the
\* token's transition to Inactive is not persisted.
C16_InvalidateFailureStillSucceeds ==
    [][\A p \in Procs : pc[p] = "invalidate" /\ pc'[p] = "done" =>
          /\ resp'[p] = OKUser(usr[p])
          /\ resp'[p].password = Encode(form[p].password)
          /\ users' = users]_vars

\* A complete step reported success, the password it set is stored, and its
\* token is still Active: the Update of the token failed.
C16_Witness ==
    \E p \in Procs :
        /\ Succeeded(p)
        /\ tokens[form[p].key].State = ResetTokenActive
        /\ users[tok[p].UserId].Password = Encode(form[p].password)
        /\ resp[p] = OKUser(users[tok[p].UserId])

\* C17: issuance and notification are detached from the request. A request
\* step for the address of an existing user answers "Email sent" before any
\* token is created or mail sent; no later step of sendResetPasswordEmail,
\* whether it succeeds or fails, changes that response; a failed Create ends
\* sendResetPasswordEmail with nothing sent; and only keys of created tokens
\* are ever mailed.
C17_IssuanceDetachedFromResponse ==
    [][\A p \in Procs :
          /\ /\ kind[p] = "none" /\ kind'[p] = "reset"
             /\ form'[p].ok /\ MatchesEmailRegex(form'[p].email)
             /\ GetByEmail(form'[p].email) # {}
             => /\ resp'[p] = OK("Email sent")
                /\ pc'[p] = "create"
                /\ tokens' = tokens /\ sent' = sent
          /\ kind[p] = "reset" /\ pc[p] \in {"create", "mail"} =>
                resp[p] = OK("Email sent") /\ resp'[p] = resp[p]
          /\ pc[p] = "create" /\ pc'[p] # "create" /\ tokens' = tokens =>
                pc'[p] = "done" /\ sent' = sent
          /\ sent' \subseteq {k \in Keys : tokens'[k] # NoToken}]_vars

\* The request was answered "Email sent" and sendResetPasswordEmail ended
\* three ways: Create failed and nothing was sent, the mail failed after the
\* token was created, and the mail was sent.
C17_Witness ==
    \E p, q, r \in Procs :
        /\ kind[p] = "reset" /\ pc[p] = "done" /\ resp[p] = OK("Email sent")
        /\ usr[p] # NoUser /\ tok[p] = NoToken
        /\ kind[q] = "reset" /\ pc[q] = "done" /\ resp[q] = OK("Email sent")
        /\ tok[q] # NoToken /\ tok[q].Key \notin sent
        /\ kind[r] = "reset" /\ pc[r] = "done" /\ resp[r] = OK("Email sent")
        /\ tok[r] # NoToken /\ tok[r].Key \in sent

\* C18: invalidating is idempotent. The invalidate step of a complete request
\* (State := Inactive, then Update) applied to a token that is stored as
\* Inactive already leaves the token table as it is and the request succeeds;
\* this is the second of two complete steps that both read the token Active.
C18_InvalidateIdempotent ==
    [][\A p \in Procs :
          /\ pc[p] = "invalidate" /\ pc'[p] = "done"
          /\ tokens[form[p].key].State = ResetTokenInactive
          => /\ tokens' = tokens
             /\ resp'[p].code = 200]_vars

\* Two complete steps that were in flight together, each having read the
\* token Active, have both applied the invalidation.
C18_Witness ==
    \E p, q \in Procs :
        /\ p # q /\ {p, q} \in overlap
        /\ Succeeded(p) /\ Succeeded(q)
        /\ form[p].key = form[q].key
        /\ tok[p].State = ResetTokenInactive /\ tok[q].State = ResetTokenInactive
        /\ tokens[form[p].key].State = ResetTokenInactive

\* C19: only the owner's password changes. Every step that changes the user
\* table is the userService.Update of a complete step, and the one record it
\* changes is that of the owner recorded in the stored token of the supplied
\* key, whose password becomes the hash of the supplied one, whatever userId
\* the request carries.
C19_OnlyOwnerChanges ==
    [][users' # users =>
          \E p \in Procs :
              /\ kind[p] = "complete" /\ pc[p] = "update" /\ pc'[p] = "invalidate"
              /\ \A u \in UserIds : users'[u] # users[u] =>
                    /\ u = GetByKey(form[p].key).UserId
                    /\ users'[u] = [users[u] EXCEPT !.Password = Encode(form[p].password)]]_vars

\* A complete step that carried another user's id has changed the password
\* of the token's owner and left that other user's password alone.
C19_Witness ==
    \E p \in Procs :
        /\ Succeeded(p)
        /\ form[p].userId # GetByKey(form[p].key).UserId
        /\ users[GetByKey(form[p].key).UserId].Password = Encode(form[p].password)
        /\ users[form[p].userId].Password = InitialPassword

\* C20: a complete step that fails after the key was accepted (at the user
\* lookup, at encoding the password, or at persisting the user) answers with
\* an error and changes neither the token table nor the user table, so the
\* token it read stays usable: Active, and valid until it expires.
C20_FailedCompleteLeavesTokenUsable ==
    [][\A p \in Procs :
          /\ kind[p] = "complete" /\ pc[p] \in {"getbyid", "update"}
          /\ pc'[p] = "done"
          => /\ resp'[p].code = 500
             /\ tokens' = tokens
             /\ users' = users
             /\ Valid(tokens[form[p].key]) => Valid(tokens[form[p].key])']_vars

\* A complete step failed with an error after its key was accepted, and a
\* later complete step with the same key succeeded.
C20_Witness ==
    \E p, q \in Procs :
        /\ p < q
        /\ kind[p] = "complete" /\ pc[p] = "done" /\ resp[p].code = 500
        /\ Succeeded(q) /\ form[q].key = form[p].key
        /\ {p, q} \notin overlap
        /\ users[tok[q].UserId].Password = Encode(form[q].password)

====
